---------------------------- MODULE Spec2Model ----------------------------
(***************************************************************************)
(* A model of the GitLab PR dashboard (src/app.py), of the standalone      *)
(* scoring function (src/score.py) and of the client's merge-request       *)
(* listing (src/app.py, src/gitlab_client.py).                             *)
(*                                                                         *)
(* Three specifications share the module:                                  *)
(*   Spec       the Streamlit script of src/app.py: its session state, its *)
(*              two cache files, the remote calls and process crashes;     *)
(*   SpecScore  the two scoring functions applied to bounded inputs;       *)
(*   SpecDays   calculate_days_past applied to bounded merge requests.     *)
(*                                                                         *)
(* Numbers.  Thresholds are the rationals n/ThDen, n in 1..MaxTh.  The     *)
(* quotients of the scoring functions are taken exactly (Python takes them *)
(* in binary floating point, whose division, multiplication and rounding   *)
(* are monotone, so every order between two scores that holds exactly      *)
(* holds of the floats as a non-strict order).  A Variant B score is       *)
(* carried as an integer number of ten-thousandths (round(x, 4)).          *)
(***************************************************************************)
EXTENDS Integers, Sequences, FiniteSets, TLC

\* ------------------------------------------------------------- bounds
ThDen == 2          \* thresholds are multiples of 1/ThDen
MaxTh == 3          \* largest threshold numerator
MaxDays == 3        \* days_past ranges over 0..MaxDays
MaxLines == 3       \* lines_changed ranges over 0..MaxLines and BigLines
BigLines == 20000   \* one large diff, so that a score can round to 1.0
MaxComments == 2    \* comments ranges over 0..MaxComments
TicksPerDay == 2    \* clock ticks in a day (a tick is 24/TicksPerDay hours)
MaxWall == 5        \* wall-clock readings of timestamps range over 0..MaxWall
MaxOff == 1         \* UTC offsets of timestamps range over 0..MaxOff ticks
MaxNow == 2         \* the UTC clock ranges over 0..MaxNow
MaxRuns == 2        \* fresh pipeline runs followed (each may write the cache)

\* ------------------------------------------------------------- variables
VARIABLES
    th,             \* app.py:22 config["thresholds"], numerators over ThDen
    variant,        \* SpecScore: "A" (app.py) or "B" (score.py)
    args,           \* SpecScore: the arguments of the last call
    scores,         \* SpecScore: the results of the last two calls, oldest first
    changed,        \* SpecScore: the argument raised between the two calls
    now,            \* the UTC clock, in ticks: what datetime.utcnow() reads
    mr,             \* SpecDays: the merge request under study
    dayResults,     \* SpecDays: the results of the last two calls, oldest first
    \* ---- Spec: the process and its files
    session_state,  \* st.session_state: a function on the keys set so far
    dataFile,       \* CACHE_DATA_FILE: <<>> when absent, else <<content>>
    metaFile,       \* CACHE_META_FILE: <<>> when absent, else <<content>>
    pc,             \* where the script run stands; "idle" between runs
    event,          \* the widget event that started the current or last run
    buttons,        \* the buttons on the page after the last run
    rendered,       \* st.dataframe's table on the page: <<>> or <<df>>
    \* ---- Spec: the locals of a run of stage data
    mrs,            \* get_merge_requests' list, as gathered so far
    stateIdx,       \* the index in fetch_mr_states of the next state to list
    rows,           \* the rows built so far
    rowDays,        \* calculate_days_past(mr) of the row being built
    rowLines,       \* get_diff_stats(...) of the row being built
    \* ---- Spec: history, read by the properties only
    run,            \* the number of the current or last fresh run
    mode,           \* the kind of the current or last run
    outcome,        \* how the current or last run ended, "running" meanwhile
    filesBefore,    \* <<dataFile, metaFile>> when the last stage-data run began
    calls,          \* merge-request calls made by the last stage-data run
    responses,      \* the per-state results received by the last fresh run
    initSaw         \* what the last render of stage init found on disk

scoreVars == <<variant, args, scores, changed>>
daysVars == <<mr, dayResults>>
fileVars == <<dataFile, metaFile>>
localVars == <<mrs, stateIdx, rows, rowDays, rowLines>>
historyVars == <<run, mode, outcome, filesBefore, calls, responses, initSaw>>
appVars == <<session_state, fileVars, pc, event, buttons, rendered, localVars, historyVars>>

vars == <<th, now, scoreVars, daysVars, appVars>>

\* Python's None, and an absent JSON field.
None == <<>>

\* No render of stage init yet in this session.
NothingSeen == [rendered |-> FALSE, last_run |-> FALSE, data |-> FALSE]

ThresholdSets ==
    [days_threshold : 1..MaxTh,
     lines_changed_threshold : 1..MaxTh,
     comment_threshold : 1..MaxTh]

\* ------------------------------------------------------------- scoring
\* calculate_score with the comment term misplaced in the numerator.
calculate_score_commentsInNumerator(days_past, lines_changed, comments) ==
    LET dp == IF days_past < 1 THEN 1 ELSE days_past
        factor100 == IF lines_changed = 1 THEN 105 ELSE 0
        numerator == (dp * th.days_threshold)
                        + (lines_changed * th.lines_changed_threshold)
                        + (comments * th.comment_threshold)
        denominator == (dp * th.days_threshold) * factor100 + ThDen * 100
    IN  (numerator * 100 * 100) \div denominator

\* Variant A, calculate_score of src/app.py.  numerator is in units of
\* 1/ThDen and denominator in units of 1/(100*ThDen): the factor
\* lines_changed_for_denominator is 1.05 = 105/100 or 0.
calculate_score(days_past, lines_changed, comments) ==
    LET dp == IF days_past < 1 THEN 1 ELSE days_past
        factor100 == IF lines_changed = 1 THEN 105 ELSE 0
        numerator == (dp * th.days_threshold)
                        + (lines_changed * th.lines_changed_threshold)
        denominator == (dp * th.days_threshold) * factor100
                        + ((comments * th.comment_threshold) + ThDen) * 100
    IN  IF denominator = 0
        THEN 0
        ELSE (numerator * 100 * 100) \div denominator

\* <<floor(r * 10^n / q), the remainder>> by long division, for 0 <= r < q.
RECURSIVE LongDiv(_, _, _)
LongDiv(r, q, n) ==
    IF n = 0
    THEN <<0, r>>
    ELSE LET prev == LongDiv(r, q, n - 1)
             t == prev[2] * 10
         IN  <<prev[1] * 10 + (t \div q), t % q>>

\* round(p/q, 4) in ten-thousandths, ties to the even neighbour, 0 <= p < q.
Round4(p, q) ==
    LET d == LongDiv(p, q, 4)
        k == d[1]
        r == d[2]
    IN  IF 2 * r > q THEN k + 1
        ELSE IF 2 * r = q THEN k + (k % 2)
        ELSE k

\* One4 ten-thousandths are 1.0: round(..., 4) keeps four decimals.
One4 == 10000

\* score.calculate_score with the numerator left out of the denominator.
score_calculate_score_noNumerator(days_past, lines_changed, comments, days_threshold, lines_changed_threshold, comment_threshold) ==
    LET numerator == (days_past * days_threshold)
                        + (lines_changed * lines_changed_threshold)
        p == numerator * 10 * comment_threshold
        q == comments * ThDen * ThDen + 10 * comment_threshold * ThDen
    IN  Round4(p, q)

\* Variant B, calculate_score of src/score.py.  The quotient
\* numerator/denominator is p/q after both are multiplied by
\* 10 * comment_threshold * ThDen.
score_calculate_score(days_past, lines_changed, comments, days_threshold, lines_changed_threshold, comment_threshold) ==
    LET numerator == (days_past * days_threshold)
                        + (lines_changed * lines_changed_threshold)
        p == numerator * 10 * comment_threshold
        q == p + comments * ThDen * ThDen + 10 * comment_threshold * ThDen
    IN  Round4(p, q)

\* ------------------------------------------------------------- age in days
\* An API timestamp is <<wall, off>>: the wall-clock reading it spells and
\* the UTC offset it carries ("2024-10-27T23:00:00+01:00"), in ticks.
Timestamps == (0..MaxWall) \X (0..MaxOff)

\* dateutil's parse: an aware datetime of the same reading and offset.
parse(ts) == [wall |-> ts[1], tzinfo |-> ts[2]]

\* datetime.replace(tzinfo=None): the reading is kept, the offset is dropped
\* (nothing is converted to UTC).
replace_tzinfo_None(dt) == dt.wall

\* timedelta.days: whole days, rounded towards minus infinity.
timedelta_days(delta) == delta \div TicksPerDay

max(a, b) == IF a >= b THEN a ELSE b

\* calculate_days_past of src/app.py, with utcnow the reading of the clock.
calculate_days_past(m, utcnow) ==
    LET created == replace_tzinfo_None(parse(m.created_at))
        end == IF m.state = "opened" THEN utcnow
               ELSE IF m.merged_at # None
                    THEN replace_tzinfo_None(parse(m.merged_at))
               ELSE IF m.closed_at # None
                    THEN replace_tzinfo_None(parse(m.closed_at))
               ELSE utcnow
    IN  max(timedelta_days(end - created), 0)

\* ------------------------------------------------------------- the remote
\* gl_cfg["fetch_mr_states"]: the states listed, in this order.
fetch_mr_states == <<"opened", "merged">>

\* The longest title shown in full (title[:40]).
TitleMax == 40

\* The merge request iid as the API returns it.  Odd iids are opened,
\* unassigned, with a title of exactly TitleMax characters; even iids are
\* merged, assigned to two users, with a title one character longer.
MergeRequestJSON(iid) ==
    [iid |-> iid,
     title |-> [k \in 1..(IF iid % 2 = 0 THEN TitleMax + 1 ELSE TitleMax) |-> "t"],
     web_url |-> <<"web_url", iid>>,
     state |-> IF iid % 2 = 0 THEN "merged" ELSE "opened",
     created_at |-> <<0, 0>>,
     merged_at |-> IF iid % 2 = 0 THEN <<TicksPerDay, 0>> ELSE None,
     closed_at |-> None,
     assignees |-> IF iid % 2 = 0
                   THEN <<[name |-> "Alice"], [name |-> "Bob"]>>
                   ELSE <<>>]

\* The /changes document of a merge request: changes_count is absent for
\* even iids.
ChangesJSON(iid) ==
    [changes_count |-> IF iid % 2 = 0 THEN None ELSE <<(iid + 1) \div 2>>]

\* The /notes list of a merge request: iid notes, the first a system note,
\* the last without a system flag.
NotesJSON(iid) ==
    [k \in 1..iid |->
        [system |-> IF k = 1 THEN <<TRUE>>
                    ELSE IF k = iid THEN None ELSE <<FALSE>>]]

\* The iids of the merge requests the remote knows.
MergeRequestIds == {1, 2}

\* What one merge-request listing may return: the iids of any merge requests,
\* in any order, none twice on a page.
Responses ==
    UNION {{r \in [1..n -> MergeRequestIds] :
                \A i, j \in 1..n : r[i] = r[j] => i = j} :
           n \in 0..Cardinality(MergeRequestIds)}

\* The ids of the projects the remote knows.
Projects == {1, 2}

\* How the remote calls of stage select may end: one of them fails, the
\* group list is empty, or the project list arrives.
SelectOutcomes ==
    [kind : {"groups_failed", "no_groups", "subgroups_failed",
             "projects_failed"}, projects : {{}}]
    \cup [kind : {"ok"}, projects : SUBSET Projects]

\* ------------------------------------------------------------- the client
\* data.get("changes_count", 0)
get_diff_stats(iid) ==
    LET data == ChangesJSON(iid)
    IN  IF data.changes_count = None THEN 0 ELSE data.changes_count[1]

\* sum(1 for n in notes if not n.get("system", False))
get_user_comments_count(iid) ==
    LET notes == NotesJSON(iid)
    IN  Cardinality({k \in DOMAIN notes :
            ~(IF notes[k].system = None THEN FALSE ELSE notes[k].system[1])})

\* extend that skips a merge request the list already holds.
extend_deduplicated(list, response) ==
    list \o SelectSeq([k \in 1..Len(response) |-> MergeRequestJSON(response[k])],
                       LAMBDA m : \A i \in 1..Len(list) : list[i].iid # m.iid)

\* mrs.extend(self._get(...)) for one state of get_merge_requests.
extend(list, response) ==
    list \o [k \in 1..Len(response) |-> MergeRequestJSON(response[k])]

\* ------------------------------------------------------------- the cache
\* os.path.exists(file)
os_path_exists(file) == file # <<>>

\* json.load or pickle.load fails on a file that was opened for writing and
\* never completed.
load_raises(file) == file # <<>> /\ ~file[1].complete

\* get_last_run_time, for a metadata file that can be read.
get_last_run_time ==
    IF ~os_path_exists(metaFile) THEN None ELSE metaFile[1].last_run

\* pd.DataFrame(rows): one row per dict, in the order of the list.
DataFrame(list) == list

\* ------------------------------------------------------------- the rows
\* ", ".join(a["name"] for a in assignees), as the sequence of its pieces.
RECURSIVE join(_)
join(assignees) ==
    IF assignees = <<>> THEN <<>>
    ELSE IF Len(assignees) = 1 THEN <<assignees[1].name>>
    ELSE <<assignees[1].name, ", ">> \o join(Tail(assignees))

\* The dict appended to rows for the merge request m (app.py lines 210-222).
Row(m, s) ==
    [ID |-> m.iid,
     Title |-> IF Len(m.title) > TitleMax
               THEN SubSeq(m.title, 1, TitleMax) \o <<".", ".", ".">>
               ELSE m.title,
     URL |-> m.web_url,
     State |-> IF m.assignees # <<>> THEN "Assigned" ELSE "Unassigned",
     Assignee |-> IF join(m.assignees) # <<>> THEN join(m.assignees)
                  ELSE <<"-">>,
     Score |-> s]

\* ------------------------------------------------------------- the script
\* session_state[key] = value
Assign(f, key, value) ==
    [x \in DOMAIN f \cup {key} |-> IF x = key THEN value ELSE f[x]]

\* Lines 142-143: the session state once the run has passed them.
WithStage ==
    IF "stage" \in DOMAIN session_state
    THEN session_state
    ELSE Assign(session_state, "stage", "init")

\* A script run starts: the one st.rerun() asked for, or one the user starts
\* by reloading or by pressing a button the page shows.
Start(ev) ==
    IF pc = "rerun" THEN ev = "none"
    ELSE pc = "idle" /\ ev \in ({"none"} \cup buttons)

\* A Continue button that reads as pressed in every run.
button_Continue_always(ev) == TRUE

\* st.button("Continue") and st.button("Load Merge Requests"): true in the
\* run the press started.
button_Continue(ev) == ev = "Continue"

button_Load(ev) == ev = "Load Merge Requests"

\* use_cached taken from the radio whether or not a cache was found.
use_cached_choice_unguarded(last_run, exists, radio) ==
    radio = "Load previous data"

\* Lines 152-160: the value stored in use_cached.
use_cached_choice(last_run, exists, radio) ==
    IF last_run # None /\ exists
    THEN radio = "Load previous data"
    ELSE FALSE

\* The script's own variables are gone when a run ends.
ClearLocals ==
    /\ mrs' = <<>>
    /\ stateIdx' = 1
    /\ rows' = <<>>
    /\ rowDays' = 0
    /\ rowLines' = 0

\* The run ends, by reaching the end of the script or by an exception.
EndRun(ss, how, shown, table) ==
    /\ session_state' = ss
    /\ pc' = "idle"
    /\ outcome' = how
    /\ buttons' = shown
    /\ rendered' = table
    /\ ClearLocals

\* st.rerun(): the run stops and another starts from the top.
st_rerun(ss) ==
    /\ session_state' = ss
    /\ pc' = "rerun"
    /\ outcome' = "rerun"
    /\ buttons' = {}
    /\ rendered' = <<>>
    /\ ClearLocals

\* A failed call whose exception is caught and the rows so far are shown.
raise_for_status_partial ==
    EndRun(session_state, "http_error", {}, <<DataFrame(rows)>>)

\* r.raise_for_status() raises in _get: the run ends there.
raise_for_status ==
    EndRun(session_state, "http_error", {}, <<>>)

\* A run in stage init (lines 142-164).
RunInit(ev, radio) ==
    /\ Start(ev)
    /\ WithStage.stage = "init"
    /\ event' = ev
    /\ mode' = "init"
    /\ initSaw' = [rendered |-> TRUE,
                   last_run |-> os_path_exists(metaFile)
                                    /\ metaFile[1].last_run # None,
                   data |-> os_path_exists(dataFile)]
    /\ IF load_raises(metaFile)
       THEN EndRun(WithStage, "error", {}, <<>>)
       ELSE LET ss == Assign(WithStage, "use_cached",
                        use_cached_choice(get_last_run_time,
                                          os_path_exists(dataFile), radio))
            IN  IF button_Continue(ev)
                THEN st_rerun(Assign(ss, "stage", "select"))
                ELSE EndRun(ss, "ok", {"Continue"}, <<>>)
    /\ UNCHANGED <<th, now, scoreVars, daysVars, fileVars>>
    /\ UNCHANGED <<run, filesBefore, calls, responses>>

\* A run in stage select (lines 169-196).
RunSelect(ev, remote) ==
    /\ Start(ev)
    /\ WithStage.stage = "select"
    /\ event' = ev
    /\ mode' = "select"
    /\ IF remote.kind # "ok"
       THEN EndRun(session_state, remote.kind, {}, <<>>)
       ELSE IF ~button_Load(ev)
       THEN EndRun(session_state, "ok", {"Load Merge Requests"}, <<>>)
       ELSE IF remote.projects = {}
       THEN EndRun(session_state, "error", {"Load Merge Requests"}, <<>>)
       ELSE \E project \in remote.projects :
                st_rerun(Assign(Assign(session_state, "project_id", project),
                                "stage", "data"))
    /\ UNCHANGED <<th, now, scoreVars, daysVars, fileVars>>
    /\ UNCHANGED <<run, filesBefore, calls, responses, initSaw>>

\* A run in stage data with use_cached set that fetches all the same.
RunDataCached_refetch(ev) ==
    /\ Start(ev)
    /\ WithStage.stage = "data"
    /\ session_state.use_cached
    /\ event' = ev
    /\ mode' = "cached"
    /\ filesBefore' = <<dataFile, metaFile>>
    /\ calls' = 0
    /\ responses' = <<>>
    /\ pc' = "list"
    /\ outcome' = "running"
    /\ buttons' = {}
    /\ rendered' = <<>>
    /\ ClearLocals
    /\ UNCHANGED <<th, now, scoreVars, daysVars, fileVars, run, initSaw>>
    /\ UNCHANGED session_state

\* A run in stage data with use_cached set (lines 199-201, 227-228).
RunDataCached(ev) ==
    /\ Start(ev)
    /\ WithStage.stage = "data"
    /\ session_state.use_cached
    /\ event' = ev
    /\ mode' = "cached"
    /\ filesBefore' = <<dataFile, metaFile>>
    /\ calls' = 0
    /\ responses' = <<>>
    /\ IF ~os_path_exists(dataFile) \/ load_raises(dataFile)
       THEN EndRun(session_state, "error", {}, <<>>)
       ELSE EndRun(session_state, "ok", {}, <<dataFile[1].df>>)
    /\ UNCHANGED <<th, now, scoreVars, daysVars, fileVars, run, initSaw>>

\* A run in stage data without use_cached begins (lines 199-206).
RunDataFresh(ev) ==
    /\ Start(ev)
    /\ WithStage.stage = "data"
    /\ ~session_state.use_cached
    /\ run < MaxRuns
    /\ event' = ev
    /\ mode' = "fresh"
    /\ run' = run + 1
    /\ filesBefore' = <<dataFile, metaFile>>
    /\ calls' = 0
    /\ responses' = <<>>
    /\ pc' = "list"
    /\ outcome' = "running"
    /\ buttons' = {}
    /\ rendered' = <<>>
    /\ ClearLocals
    /\ UNCHANGED <<th, now, scoreVars, daysVars, fileVars, session_state, initSaw>>

\* get_merge_requests lists one state (lines 50-56); after the last state it
\* returns, and the row loop or, for an empty list, the save begins.
ListMergeRequests(ok, response) ==
    /\ pc = "list"
    /\ calls' = calls + 1
    /\ IF ~ok
       THEN raise_for_status /\ UNCHANGED responses
       ELSE /\ mrs' = extend(mrs, response)
            /\ responses' = Append(responses, response)
            /\ stateIdx' = stateIdx + 1
            /\ pc' = IF stateIdx < Len(fetch_mr_states) THEN "list"
                     ELSE IF mrs' = <<>> THEN "open_data"
                     ELSE "diff"
            /\ UNCHANGED <<session_state, outcome, buttons, rendered>>
            /\ UNCHANGED <<rows, rowDays, rowLines>>
    /\ UNCHANGED <<th, now, scoreVars, daysVars, fileVars, event>>
    /\ UNCHANGED <<run, mode, filesBefore, initSaw>>

\* calculate_days_past(mr), then get_diff_stats (lines 218-219).
GetDiffStats(ok) ==
    /\ pc = "diff"
    /\ calls' = calls + 1
    /\ IF ~ok
       THEN raise_for_status
       ELSE /\ rowDays' = calculate_days_past(mrs[Len(rows) + 1], now)
            /\ rowLines' = get_diff_stats(mrs[Len(rows) + 1].iid)
            /\ pc' = "notes"
            /\ UNCHANGED <<session_state, outcome, buttons, rendered>>
            /\ UNCHANGED <<mrs, stateIdx, rows>>
    /\ UNCHANGED <<th, now, scoreVars, daysVars, fileVars, event>>
    /\ UNCHANGED <<run, mode, filesBefore, responses, initSaw>>

\* get_user_comments_count, calculate_score and rows.append (lines 211-222).
GetUserCommentsCount(ok) ==
    /\ pc = "notes"
    /\ calls' = calls + 1
    /\ IF ~ok
       THEN raise_for_status
       ELSE LET m == mrs[Len(rows) + 1]
                s == calculate_score(rowDays, rowLines,
                                     get_user_comments_count(m.iid))
            IN  /\ rows' = Append(rows, Row(m, s))
                /\ pc' = IF Len(rows') < Len(mrs) THEN "diff" ELSE "open_data"
                /\ UNCHANGED <<session_state, outcome, buttons, rendered>>
                /\ UNCHANGED <<mrs, stateIdx, rowDays, rowLines>>
    /\ UNCHANGED <<th, now, scoreVars, daysVars, fileVars, event>>
    /\ UNCHANGED <<run, mode, filesBefore, responses, initSaw>>

\* A step of the run that only writes a file.
WriteStep ==
    /\ UNCHANGED <<th, now, scoreVars, daysVars, event, localVars>>
    /\ UNCHANGED <<session_state, outcome, buttons, rendered, historyVars>>

\* save_cached_data writing the timestamp record before the table.
OpenDataFile_metaFirst ==
    /\ pc = "open_data"
    /\ metaFile' = <<[complete |-> TRUE, last_run |-> <<now>>, run |-> run]>>
    /\ pc' = "dump_data"
    /\ UNCHANGED dataFile
    /\ WriteStep

\* save_cached_data, line 123: open(CACHE_DATA_FILE, "wb") creates the file
\* or empties it.
OpenDataFile ==
    /\ pc = "open_data"
    /\ dataFile' = <<[complete |-> FALSE, df |-> <<>>, run |-> run]>>
    /\ pc' = "dump_data"
    /\ UNCHANGED metaFile
    /\ WriteStep

\* save_cached_data, line 124: pickle.dump(df, f), and the file is closed.
PickleDump ==
    /\ pc = "dump_data"
    /\ dataFile' = <<[complete |-> TRUE, df |-> DataFrame(rows), run |-> run]>>
    /\ pc' = "open_meta"
    /\ UNCHANGED metaFile
    /\ WriteStep

\* save_cached_data, line 125: open(CACHE_META_FILE, "w").
OpenMetaFile ==
    /\ pc = "open_meta"
    /\ metaFile' = <<[complete |-> FALSE, last_run |-> None, run |-> run]>>
    /\ pc' = "dump_meta"
    /\ UNCHANGED dataFile
    /\ WriteStep

\* save_cached_data, line 126: json.dump({"last_run": utcnow}, f).
JsonDump ==
    /\ pc = "dump_meta"
    /\ metaFile' = <<[complete |-> TRUE, last_run |-> <<now>>, run |-> run]>>
    /\ pc' = "render"
    /\ UNCHANGED dataFile
    /\ WriteStep

\* Lines 227-228: the table is shown and the run ends.
Render ==
    /\ pc = "render"
    /\ EndRun(session_state, "ok", {}, <<DataFrame(rows)>>)
    /\ UNCHANGED <<th, now, scoreVars, daysVars, fileVars, event>>
    /\ UNCHANGED <<run, mode, filesBefore, calls, responses, initSaw>>

\* The process dies, at any point of a run or between runs, and is started
\* again: the session is lost, the files stay as they are.
Crash ==
    /\ EndRun(<<>>, "crashed", {}, <<>>)
    /\ event' = "none"
    /\ mode' = "none"
    /\ filesBefore' = <<<<>>, <<>>>>
    /\ calls' = 0
    /\ responses' = <<>>
    /\ initSaw' = NothingSeen
    /\ UNCHANGED <<th, now, scoreVars, daysVars, fileVars, run>>

\* ------------------------------------------------------------- SpecScore
DaysSet == 0..MaxDays
LinesSet == (0..MaxLines) \cup {BigLines}
CommentsSet == 0..MaxComments

ArgSets ==
    [days_past : DaysSet, lines_changed : LinesSet, comments : CommentsSet]

\* One call of the variant under study with the arguments a.
Apply(a) ==
    IF variant = "A"
    THEN calculate_score(a.days_past, a.lines_changed, a.comments)
    ELSE score_calculate_score(a.days_past, a.lines_changed, a.comments,
                               th.days_threshold, th.lines_changed_threshold,
                               th.comment_threshold)

\* The variables of the other specifications, at rest.
ScoreIdle ==
    /\ variant = "A"
    /\ args = [days_past |-> 0, lines_changed |-> 0, comments |-> 0]
    /\ scores = <<>>
    /\ changed = "none"

DaysIdle ==
    /\ mr = None
    /\ dayResults = <<>>

\* The process before its first script run, with no cache on disk.
AppInit ==
    /\ session_state = <<>>
    /\ dataFile = <<>>
    /\ metaFile = <<>>
    /\ pc = "idle"
    /\ event = "none"
    /\ buttons = {}
    /\ rendered = <<>>
    /\ mrs = <<>>
    /\ stateIdx = 1
    /\ rows = <<>>
    /\ rowDays = 0
    /\ rowLines = 0
    /\ run = 0
    /\ mode = "none"
    /\ outcome = "none"
    /\ filesBefore = <<<<>>, <<>>>>
    /\ calls = 0
    /\ responses = <<>>
    /\ initSaw = NothingSeen

ScoreInit ==
    /\ now = 0
    /\ DaysIdle
    /\ AppInit
    /\ th \in ThresholdSets
    /\ variant \in {"A", "B"}
    /\ args \in ArgSets
    /\ scores = <<>>
    /\ changed = "none"

\* The first call.
Call ==
    /\ scores = <<>>
    /\ scores' = <<Apply(args)>>
    /\ UNCHANGED <<th, variant, args, changed, now, daysVars, appVars>>

\* A second call with one argument raised and the others held fixed.
CallAgain(a, field) ==
    /\ scores # <<>>
    /\ args' = a
    /\ scores' = <<scores[Len(scores)], Apply(a)>>
    /\ changed' = field
    /\ UNCHANGED <<th, variant, now, daysVars, appVars>>

RaiseDays ==
    \E d \in DaysSet :
        /\ d > args.days_past
        /\ CallAgain([args EXCEPT !.days_past = d], "days_past")

RaiseLines ==
    \E l \in LinesSet :
        /\ l > args.lines_changed
        /\ CallAgain([args EXCEPT !.lines_changed = l], "lines_changed")

RaiseComments ==
    \E c \in CommentsSet :
        /\ c > args.comments
        /\ CallAgain([args EXCEPT !.comments = c], "comments")

ScoreNext ==
    \/ Call
    \/ RaiseDays
    \/ RaiseLines
    \/ RaiseComments

\* The result of the last call and of the call before it.
score == scores[Len(scores)]
prevScore == scores[1]

SpecScore == ScoreInit /\ [][ScoreNext]_vars

\* ------------------------------------------------------------- SpecDays
MergeRequests ==
    [state : {"opened", "merged", "closed"},
     created_at : Timestamps,
     merged_at : Timestamps \cup {None},
     closed_at : Timestamps \cup {None}]

DaysInit ==
    /\ th = [days_threshold |-> ThDen, lines_changed_threshold |-> ThDen,
             comment_threshold |-> ThDen]
    /\ ScoreIdle
    /\ AppInit
    /\ now \in 0..MaxNow
    /\ mr \in MergeRequests
    /\ dayResults = <<>>

\* One call of calculate_days_past(mr) at the current time.
CallDaysPast ==
    /\ dayResults' =
            IF dayResults = <<>>
            THEN <<calculate_days_past(mr, now)>>
            ELSE <<dayResults[Len(dayResults)], calculate_days_past(mr, now)>>
    /\ UNCHANGED <<th, scoreVars, now, mr, appVars>>

\* Time passes.
Tick ==
    /\ now < MaxNow
    /\ now' = now + 1
    /\ UNCHANGED <<th, scoreVars, daysVars, appVars>>

DaysNext ==
    \/ CallDaysPast
    \/ Tick

SpecDays == DaysInit /\ [][DaysNext]_vars

\* The UTC instant a timestamp denotes.
Instant(ts) == ts[1] - ts[2]

\* C6 (as claimed): for a merged merge request every call returns the
\* whole-day difference between its creation and merge timestamps, floored
\* at 0, whatever the current time; and two calls return different values
\* only when the current time is the end bound: the state is opened, or
\* neither a merge nor a close timestamp is present.
C6_MergedDaysPastFixed ==
    /\ (mr # None /\ mr.state = "merged" /\ mr.merged_at # None) =>
            \A i \in 1..Len(dayResults) :
                dayResults[i] =
                    max((Instant(mr.merged_at) - Instant(mr.created_at))
                            \div TicksPerDay, 0)
    /\ (Len(dayResults) = 2 /\ dayResults[1] # dayResults[2]) =>
            \/ mr.state = "opened"
            \/ (mr.merged_at = None /\ mr.closed_at = None)

\* The part of C6 that holds: a merged merge request's age does not change
\* with the current time, and is the whole-day difference of the wall-clock
\* readings of its two timestamps, their UTC offsets ignored.
MergedDaysPastOfReadings ==
    (mr # None /\ mr.state = "merged" /\ mr.merged_at # None) =>
        \A i \in 1..Len(dayResults) :
            dayResults[i] =
                max((mr.merged_at[1] - mr.created_at[1]) \div TicksPerDay, 0)

\* The part of C6 that holds: the current time is the end bound only for an
\* opened merge request or one with neither timestamp.
NowUsedOnlyWhenOpenOrUndated ==
    (Len(dayResults) = 2 /\ dayResults[1] # dayResults[2]) =>
        \/ mr.state = "opened"
        \/ (mr.merged_at = None /\ mr.closed_at = None)

\* ------------------------------------------------------------- Spec
Init ==
    /\ th = [days_threshold |-> ThDen, lines_changed_threshold |-> ThDen,
             comment_threshold |-> ThDen]
    /\ now = 0
    /\ ScoreIdle
    /\ DaysIdle
    /\ AppInit

Events == {"none", "Continue", "Load Merge Requests"}

Next ==
    \/ \E ev \in Events, radio \in {"Load previous data", "Re-run"} :
            RunInit(ev, radio)
    \/ \E ev \in Events, remote \in SelectOutcomes : RunSelect(ev, remote)
    \/ \E ev \in Events : RunDataCached(ev)
    \/ \E ev \in Events : RunDataFresh(ev)
    \/ \E ok \in BOOLEAN, response \in Responses :
            ListMergeRequests(ok, response)
    \/ \E ok \in BOOLEAN : GetDiffStats(ok)
    \/ \E ok \in BOOLEAN : GetUserCommentsCount(ok)
    \/ OpenDataFile
    \/ PickleDump
    \/ OpenMetaFile
    \/ JsonDump
    \/ Render
    \/ Crash
    \/ Tick

Spec == Init /\ [][Next]_vars

\* ------------------------------------------------------------- properties
Stages == {"init", "select", "data"}

HasStage == "stage" \in DOMAIN session_state

\* The positions of a fresh run of stage data.
FreshRunning ==
    pc \in {"list", "diff", "notes", "open_data", "dump_data", "open_meta",
            "dump_meta", "render"}

\* The iids a sequence of merge requests or per-state results holds, in order.
RECURSIVE Flatten(_)
Flatten(seqs) ==
    IF seqs = <<>> THEN <<>> ELSE Head(seqs) \o Flatten(Tail(seqs))

\* C1: within one session the stage is one of init, select, data; it changes
\* only from init to select in a run started by the Continue button and from
\* select to data in a run started by the Load Merge Requests button; once
\* it is data it does not change.
C1_StageSteps ==
    /\ [](HasStage => session_state.stage \in Stages)
    /\ [][("stage" \in DOMAIN session_state') =>
            LET before == WithStage.stage
                after == session_state'.stage
            IN  \/ after = before
                \/ (before = "init" /\ after = "select"
                        /\ event' = "Continue")
                \/ (before = "select" /\ after = "data"
                        /\ event' = "Load Merge Requests")]_vars

\* C1 happens: a session went through both steps and ran stage data.
C1_Witness ==
    /\ HasStage
    /\ session_state.stage = "data"
    /\ pc = "idle"
    /\ outcome = "ok"

\* C2: once the stage has left init, use_cached is true only if the last
\* render of init found a last-run timestamp and the table file; if either
\* was missing use_cached is false and a run of stage data is a fresh run.
C2_UseCachedOnlyWithPriorCache ==
    (HasStage /\ session_state.stage # "init") =>
        /\ initSaw.rendered
        /\ session_state.use_cached => (initSaw.last_run /\ initSaw.data)
        /\ ~(initSaw.last_run /\ initSaw.data) =>
                /\ ~session_state.use_cached
                /\ mode \in {"cached", "fresh"} => mode = "fresh"

\* C2 happens: a cache was found, the user chose it, and stage data loaded it.
C2_Witness ==
    /\ HasStage
    /\ session_state.stage = "data"
    /\ session_state.use_cached
    /\ mode = "cached"
    /\ outcome = "ok"

\* C7: the list get_merge_requests builds is the per-state results joined in
\* the order of the states, nothing dropped; the rows built follow it one
\* for one, and the table of a finished fresh run has one row per merge
\* request returned, in that order, row i carrying the i-th iid.
C7_RowsFollowMergeRequests ==
    /\ (mode = "fresh" /\ FreshRunning) =>
            /\ [i \in 1..Len(mrs) |-> mrs[i].iid] = Flatten(responses)
            /\ Len(rows) <= Len(mrs)
            /\ \A i \in 1..Len(rows) : rows[i].ID = mrs[i].iid
    /\ (mode = "fresh" /\ pc = "idle" /\ outcome = "ok") =>
            /\ Len(responses) = Len(fetch_mr_states)
            /\ rendered # <<>>
            /\ [i \in 1..Len(rendered[1]) |-> rendered[1][i].ID]
                    = Flatten(responses)

\* C7 happens: a merge request returned under both states has two rows.
C7_Witness ==
    /\ mode = "fresh"
    /\ pc = "idle"
    /\ outcome = "ok"
    /\ responses = <<<<2, 1>>, <<1>>>>
    /\ Len(rendered[1]) = 3

\* C8: after a failed remote call in a fresh run the run is over, no table
\* is on the page, no rows are kept, and both cache files are as they were
\* when the run began.
C8_FailedCallAbortsRun ==
    (mode = "fresh" /\ outcome = "http_error") =>
        /\ pc = "idle"
        /\ rendered = <<>>
        /\ rows = <<>>
        /\ <<dataFile, metaFile>> = filesBefore

\* C8 happens: with a cache on disk, a fresh run listed both states, built
\* one row, and its fifth call failed.
C8_Witness ==
    /\ mode = "fresh"
    /\ outcome = "http_error"
    /\ calls = 5
    /\ os_path_exists(dataFile)
    /\ os_path_exists(metaFile)

\* C9: a run of stage data with use_cached leaves both cache files as they
\* were and makes no merge-request call; a finished fresh run leaves the
\* table it built and shows in the table file and a timestamp of its own in
\* the metadata file; a cache file changes only in a fresh run of stage data
\* whose calls have all succeeded, and a timestamp written is the current
\* UTC time.
C9_CacheWrittenOnlyByFreshRun ==
    /\ [](mode = "cached" =>
            (<<dataFile, metaFile>> = filesBefore /\ calls = 0))
    /\ []((mode = "fresh" /\ pc = "idle" /\ outcome = "ok") =>
            /\ dataFile = <<[complete |-> TRUE, df |-> rendered[1],
                             run |-> run]>>
            /\ os_path_exists(metaFile)
            /\ metaFile[1].complete
            /\ metaFile[1].run = run)
    /\ [][<<dataFile, metaFile>>' # <<dataFile, metaFile>> =>
            /\ mode = "fresh"
            /\ session_state.stage = "data"
            /\ ~session_state.use_cached
            /\ Len(responses) = Len(fetch_mr_states)
            /\ Len(rows) = Len(mrs)
            /\ calls = Len(fetch_mr_states) + 2 * Len(mrs)
            /\ (metaFile' # metaFile /\ metaFile'[1].complete) =>
                    metaFile'[1].last_run = <<now>>]_vars

\* C9 happens: a run of stage data loaded and showed the cached table.
C9_Witness ==
    /\ mode = "cached"
    /\ outcome = "ok"
    /\ rendered = <<dataFile[1].df>>
    /\ run >= 1

\* C10: the metadata file never belongs to a later run than the table file;
\* between the two writes of a save the table is the new one and the
\* metadata file is as it was before the run; after the save both belong to
\* the same run; and a render of stage init that found no timestamp does not
\* offer the cache.
C10_TimestampNeverNewerThanTable ==
    /\ os_path_exists(metaFile) =>
            (os_path_exists(dataFile) /\ metaFile[1].run <= dataFile[1].run)
    /\ pc = "open_meta" =>
            /\ dataFile = <<[complete |-> TRUE, df |-> DataFrame(rows),
                             run |-> run]>>
            /\ metaFile = filesBefore[2]
    /\ pc = "render" =>
            /\ dataFile[1].complete /\ metaFile[1].complete
            /\ dataFile[1].run = run /\ metaFile[1].run = run
    /\ (initSaw.rendered /\ ~initSaw.last_run
            /\ "use_cached" \in DOMAIN session_state) =>
                ~session_state.use_cached

\* C10 happens: the process died between the two writes of its second save,
\* leaving the second table with the first timestamp.
C10_Witness ==
    /\ outcome = "crashed"
    /\ os_path_exists(dataFile) /\ dataFile[1].complete /\ dataFile[1].run = 2
    /\ os_path_exists(metaFile) /\ metaFile[1].complete /\ metaFile[1].run = 1

\* C3 (as claimed): for both variants the score does not decrease when the
\* age or the lines changed are raised and the other inputs are held fixed.
C3_ScoreNonDecreasingInAgeAndLines ==
    changed \in {"days_past", "lines_changed"} => score >= prevScore

\* Variant B alone is non-decreasing in age and in lines changed.
VariantBNonDecreasingInAgeAndLines ==
    (variant = "B" /\ changed \in {"days_past", "lines_changed"})
        => score >= prevScore

\* C4: for both variants the score does not increase when the comment count
\* is raised and age and lines changed are held fixed.
C4_ScoreNonIncreasingInComments ==
    changed = "comments" => score <= prevScore

\* C4 happens: a call of Variant A with more comments returned a strictly
\* lower score.
C4_Witness ==
    /\ changed = "comments"
    /\ variant = "A"
    /\ score < prevScore

\* C5 (as claimed): every Variant B score lies strictly between 0 and 1.
C5_VariantBInOpenInterval ==
    (variant = "B" /\ scores # <<>>) => (0 < score /\ score < One4)

\* C5 (amended): every Variant B score lies in the closed interval [0, 1].
C5_VariantBInClosedInterval ==
    (variant = "B" /\ scores # <<>>) => (0 <= score /\ score <= One4)

\* C5 happens at both ends: Variant B returned 0.0 for days_past = 0 and
\* lines_changed = 0, and 1.0 once lines_changed was raised to BigLines.
C5_Witness ==
    /\ variant = "B"
    /\ changed = "lines_changed"
    /\ args.days_past = 0
    /\ scores = <<0, One4>>

=============================================================================
